---- MODULE Spec2Model ----
(***************************************************************************)
(* Model of yearly_contribution_text.py: the glyph table CHAR_MAP, the     *)
(* rasterizer build_bitmap (its character loop taken one iteration at a    *)
(* time), and the driver __main__ / write_string_to_git that turns every   *)
(* lit cell of the bitmap into one dated call of generate_commit.          *)
(*                                                                         *)
(* Python strings are modelled as sequences of one-character strings, so   *)
(* that indexing, slicing, concatenation and len() are the sequence        *)
(* operations.  A bitmap row is a sequence over {"0","1"}.                 *)
(***************************************************************************)
EXTENDS Integers, Sequences, FiniteSets, TLC

VARIABLES
    text,            \* the text argument of build_bitmap / args.text
    pc,              \* position of the program
    chars,           \* build_bitmap's local `text` after lower() and [:max_chars]
    i,               \* 1-based index of the next character of the for loop
    bitmap_rows,     \* build_bitmap's / write_string_to_git's bitmap_rows
    total_width,     \* build_bitmap's total_width
    broke,           \* TRUE once the for loop was left by `break`
    warnings,        \* the warnings printed to stderr, in order
    year,            \* args.year
    preview,         \* args.preview
    git_ok,          \* `git rev-parse --git-dir`: "unknown", "ok" or "failed"
    d,               \* the anchor date [year, month, day] of write_string_to_git
    col,             \* loop variable col (0-based, as in the source)
    row,             \* loop variable row (0-based, as in the source)
    total_commits,   \* write_string_to_git's total_commits
    commit_count,    \* write_string_to_git's commit_count
    failed_commits,  \* write_string_to_git's failed_commits
    calls,           \* every call of generate_commit so far: [row, col, date]
    exit_code        \* "running", or the exit status "0" or "1" of the process

vars == <<text, pc, chars, i, bitmap_rows, total_width, broke, warnings, year,
          preview, git_ok, d, col, row, total_commits, commit_count,
          failed_commits, calls, exit_code>>

rasterLocals == <<chars, i, total_width, broke>>
rasterVars == <<rasterLocals, warnings>>
emitVars == <<year, preview, git_ok, d, col, row, total_commits, commit_count,
              failed_commits, calls, exit_code>>

(***************************************************************************)
(* Bounds of the model.                                                    *)
(***************************************************************************)
\* longest run of one repeated character in a generated input text
MaxRun == 11
\* longest free tail after the two runs of a generated input text
MaxTail == 1
\* longest input text drawn freely over the core alphabet
MaxShort == 4
\* most generate_commit calls that fail in one run
MaxFailed == 2
\* how many years outside [2000, 2100] are tried on either side
YearMargin == 1

(***************************************************************************)
(* CHAR_MAP (lines 8-45): 36 glyphs of 7 rows each.                        *)
(***************************************************************************)
CHAR_MAP ==
       "a" :> << <<"0","1","1","0">>, <<"1","0","0","1">>, <<"1","1","1","1">>, <<"1","0","0","1">>,
               <<"1","0","0","1">>, <<"0","0","0","0">>, <<"0","0","0","0">> >>
    @@ "b" :> << <<"1","1","1","0">>, <<"1","0","0","1">>, <<"1","1","1","0">>, <<"1","0","0","1">>,
               <<"1","1","1","0">>, <<"0","0","0","0">>, <<"0","0","0","0">> >>
    @@ "c" :> << <<"0","1","1","1">>, <<"1","0","0","0">>, <<"1","0","0","0">>, <<"1","0","0","0">>,
               <<"0","1","1","1">>, <<"0","0","0","0">>, <<"0","0","0","0">> >>
    @@ "d" :> << <<"1","1","1","0">>, <<"1","0","0","1">>, <<"1","0","0","1">>, <<"1","0","0","1">>,
               <<"1","1","1","0">>, <<"0","0","0","0">>, <<"0","0","0","0">> >>
    @@ "e" :> << <<"1","1","1","1">>, <<"1","0","0","0">>, <<"1","1","1","0">>, <<"1","0","0","0">>,
               <<"1","1","1","1">>, <<"0","0","0","0">>, <<"0","0","0","0">> >>
    @@ "f" :> << <<"1","1","1","1">>, <<"1","0","0","0">>, <<"1","1","1","0">>, <<"1","0","0","0">>,
               <<"1","0","0","0">>, <<"0","0","0","0">>, <<"0","0","0","0">> >>
    @@ "g" :> << <<"0","1","1","1">>, <<"1","0","0","0">>, <<"1","0","1","1">>, <<"1","0","0","1">>,
               <<"0","1","1","1">>, <<"0","0","0","0">>, <<"0","0","0","0">> >>
    @@ "h" :> << <<"1","0","0","1">>, <<"1","0","0","1">>, <<"1","1","1","1">>, <<"1","0","0","1">>,
               <<"1","0","0","1">>, <<"0","0","0","0">>, <<"0","0","0","0">> >>
    @@ "i" :> << <<"1","1","1">>, <<"0","1","0">>, <<"0","1","0">>, <<"0","1","0">>,
               <<"1","1","1">>, <<"0","0","0">>, <<"0","0","0">> >>
    @@ "j" :> << <<"0","0","1","1">>, <<"0","0","0","1">>, <<"0","0","0","1">>, <<"1","0","0","1">>,
               <<"0","1","1","0">>, <<"0","0","0","0">>, <<"0","0","0","0">> >>
    @@ "k" :> << <<"1","0","0","1">>, <<"1","0","1","0">>, <<"1","1","0","0">>, <<"1","0","1","0">>,
               <<"1","0","0","1">>, <<"0","0","0","0">>, <<"0","0","0","0">> >>
    @@ "l" :> << <<"1","0","0","0">>, <<"1","0","0","0">>, <<"1","0","0","0">>, <<"1","0","0","0">>,
               <<"1","1","1","1">>, <<"0","0","0","0">>, <<"0","0","0","0">> >>
    @@ "m" :> << <<"1","0","0","0","1">>, <<"1","1","0","1","1">>, <<"1","0","1","0","1">>, <<"1","0","0","0","1">>,
               <<"1","0","0","0","1">>, <<"0","0","0","0","0">>, <<"0","0","0","0","0">> >>
    @@ "n" :> << <<"1","0","0","1">>, <<"1","1","0","1">>, <<"1","0","1","1">>, <<"1","0","0","1">>,
               <<"1","0","0","1">>, <<"0","0","0","0">>, <<"0","0","0","0">> >>
    @@ "o" :> << <<"0","1","1","0">>, <<"1","0","0","1">>, <<"1","0","0","1">>, <<"1","0","0","1">>,
               <<"0","1","1","0">>, <<"0","0","0","0">>, <<"0","0","0","0">> >>
    @@ "p" :> << <<"1","1","1","0">>, <<"1","0","0","1">>, <<"1","1","1","0">>, <<"1","0","0","0">>,
               <<"1","0","0","0">>, <<"0","0","0","0">>, <<"0","0","0","0">> >>
    @@ "q" :> << <<"0","1","1","0">>, <<"1","0","0","1">>, <<"1","0","0","1">>, <<"1","0","1","1">>,
               <<"0","1","1","1">>, <<"0","0","0","0">>, <<"0","0","0","0">> >>
    @@ "r" :> << <<"1","1","1","0">>, <<"1","0","0","1">>, <<"1","1","1","0">>, <<"1","0","1","0">>,
               <<"1","0","0","1">>, <<"0","0","0","0">>, <<"0","0","0","0">> >>
    @@ "s" :> << <<"0","1","1","1">>, <<"1","0","0","0">>, <<"0","1","1","0">>, <<"0","0","0","1">>,
               <<"1","1","1","0">>, <<"0","0","0","0">>, <<"0","0","0","0">> >>
    @@ "t" :> << <<"1","1","1","1","1">>, <<"0","0","1","0","0">>, <<"0","0","1","0","0">>, <<"0","0","1","0","0">>,
               <<"0","0","1","0","0">>, <<"0","0","0","0","0">>, <<"0","0","0","0","0">> >>
    @@ "u" :> << <<"1","0","0","1">>, <<"1","0","0","1">>, <<"1","0","0","1">>, <<"1","0","0","1">>,
               <<"0","1","1","0">>, <<"0","0","0","0">>, <<"0","0","0","0">> >>
    @@ "v" :> << <<"1","0","0","1">>, <<"1","0","0","1">>, <<"1","0","0","1">>, <<"0","1","0","1">>,
               <<"0","0","1","0">>, <<"0","0","0","0">>, <<"0","0","0","0">> >>
    @@ "w" :> << <<"1","0","0","0","1">>, <<"1","0","0","0","1">>, <<"1","0","1","0","1">>, <<"1","1","0","1","1">>,
               <<"1","0","0","0","1">>, <<"0","0","0","0","0">>, <<"0","0","0","0","0">> >>
    @@ "x" :> << <<"1","0","0","1">>, <<"0","1","0","1">>, <<"0","0","1","0">>, <<"0","1","0","1">>,
               <<"1","0","0","1">>, <<"0","0","0","0">>, <<"0","0","0","0">> >>
    @@ "y" :> << <<"1","0","0","1">>, <<"0","1","0","1">>, <<"0","0","1","0">>, <<"0","0","1","0">>,
               <<"0","0","1","0">>, <<"0","0","0","0">>, <<"0","0","0","0">> >>
    @@ "z" :> << <<"1","1","1","1">>, <<"0","0","0","1">>, <<"0","0","1","0">>, <<"0","1","0","0">>,
               <<"1","1","1","1">>, <<"0","0","0","0">>, <<"0","0","0","0">> >>
    @@ "0" :> << <<"0","1","1","0">>, <<"1","0","0","1">>, <<"1","0","0","1">>, <<"1","0","0","1">>,
               <<"0","1","1","0">>, <<"0","0","0","0">>, <<"0","0","0","0">> >>
    @@ "1" :> << <<"0","1","0">>, <<"1","1","0">>, <<"0","1","0">>, <<"0","1","0">>,
               <<"1","1","1">>, <<"0","0","0">>, <<"0","0","0">> >>
    @@ "2" :> << <<"0","1","1","0">>, <<"1","0","0","1">>, <<"0","0","1","0">>, <<"0","1","0","0">>,
               <<"1","1","1","1">>, <<"0","0","0","0">>, <<"0","0","0","0">> >>
    @@ "3" :> << <<"1","1","1","0">>, <<"0","0","0","1">>, <<"0","1","1","0">>, <<"0","0","0","1">>,
               <<"1","1","1","0">>, <<"0","0","0","0">>, <<"0","0","0","0">> >>
    @@ "4" :> << <<"1","0","0","1">>, <<"1","0","0","1">>, <<"1","1","1","1">>, <<"0","0","0","1">>,
               <<"0","0","0","1">>, <<"0","0","0","0">>, <<"0","0","0","0">> >>
    @@ "5" :> << <<"1","1","1","1">>, <<"1","0","0","0">>, <<"1","1","1","0">>, <<"0","0","0","1">>,
               <<"1","1","1","0">>, <<"0","0","0","0">>, <<"0","0","0","0">> >>
    @@ "6" :> << <<"0","1","1","1">>, <<"1","0","0","0">>, <<"1","1","1","0">>, <<"1","0","0","1">>,
               <<"0","1","1","0">>, <<"0","0","0","0">>, <<"0","0","0","0">> >>
    @@ "7" :> << <<"1","1","1","1">>, <<"0","0","0","1">>, <<"0","0","1","0">>, <<"0","1","0","0">>,
               <<"0","1","0","0">>, <<"0","0","0","0">>, <<"0","0","0","0">> >>
    @@ "8" :> << <<"0","1","1","0">>, <<"1","0","0","1">>, <<"0","1","1","0">>, <<"1","0","0","1">>,
               <<"0","1","1","0">>, <<"0","0","0","0">>, <<"0","0","0","0">> >>
    @@ "9" :> << <<"0","1","1","0">>, <<"1","0","0","1">>, <<"0","1","1","1">>, <<"0","0","0","1">>,
               <<"1","1","1","0">>, <<"0","0","0","0">>, <<"0","0","0","0">> >>

\* dict.get(key): the value, or None (modelled as the empty sequence, which
\* is falsy like None and differs from every glyph).
None == << >>

CharMapGet(char) ==
    IF char \in DOMAIN CHAR_MAP THEN CHAR_MAP[char] ELSE None

\* str.lower() on the characters the model draws from: A-Z map to a-z,
\* every other character is unchanged.
UpperLetters == << "A", "B", "C", "D", "E", "F", "G", "H", "I", "J", "K", "L", "M", "N", "O", "P", "Q", "R", "S", "T", "U", "V", "W", "X", "Y", "Z" >>

LowerLetters == << "a", "b", "c", "d", "e", "f", "g", "h", "i", "j", "k", "l", "m", "n", "o", "p", "q", "r", "s", "t", "u", "v", "w", "x", "y", "z" >>

lower_char(c) ==
    IF \E k \in 1..Len(UpperLetters) : UpperLetters[k] = c
    THEN LowerLetters[CHOOSE k \in 1..Len(UpperLetters) : UpperLetters[k] = c]
    ELSE c

lower(s) == [k \in 1..Len(s) |-> lower_char(s[k])]

\* c * n for a one-character string c
Repeat(c, n) == [k \in 1..n |-> c]

\* s[:n]
Prefix(s, n) == SubSeq(s, 1, IF Len(s) < n THEN Len(s) ELSE n)

\* get_char_width (lines 48-51)
get_char_width(char) ==
    LET char_bitmap == CharMapGet(lower_char(char))
    IN  IF char_bitmap # None THEN Len(char_bitmap[1]) ELSE 0

\* get_max_chars (lines 54-61)
get_max_chars(graph_width, avg_char_width, spacing) ==
    graph_width \div (avg_char_width + spacing)

(***************************************************************************)
(* build_bitmap (lines 78-118).                                            *)
(***************************************************************************)
\* lines 87-89: lower(), then the cut to get_max_chars() characters
\* (get_max_chars is called with its defaults 52, 4, 1)
Normalize(t) == Prefix(lower(t), get_max_chars(52, 4, 1))

\* lines 91-92: the loop's variables before the first iteration
LoopInit ==
    [rows |-> [r \in 1..7 |-> << >>], total_width |-> 0, broke |-> FALSE,
     warnings |-> << >>]

\* variant of ExceedsWidth: the width of the character itself is left out
ExceedsWidth_IgnoreChar(tw, char_width) == tw > 52

\* line 104: would this character exceed the graph width?
ExceedsWidth(tw, char_width) == tw + char_width > 52

\* lines 96-100: an unsupported character is reported and skipped
SkipChar(st, char) ==
    [st EXCEPT !.warnings = Append(@, <<"not supported", char>>)]

\* variant of TruncateAt: the bitmap built so far is thrown away
TruncateAt_Discard(st, char) ==
    [st EXCEPT !.warnings = Append(@, <<"truncated", char>>), !.broke = TRUE,
               !.rows = [r \in 1..7 |-> << >>], !.total_width = 0]

\* lines 104-109: the text is truncated here and the loop is left
TruncateAt(st, char) ==
    [st EXCEPT !.warnings = Append(@, <<"truncated", char>>), !.broke = TRUE]

\* variant of AppendGlyph: the spacing column is counted but not appended
AppendGlyph_NoSpacing(st, char_bitmap, char_width) ==
    [st EXCEPT !.rows = [r \in 1..7 |-> st.rows[r] \o char_bitmap[r]],
               !.total_width = @ + char_width]

\* lines 111-113: the glyph and one spacing column are appended to every row
AppendGlyph(st, char_bitmap, char_width) ==
    [st EXCEPT !.rows = [r \in 1..7 |-> st.rows[r] \o char_bitmap[r] \o <<"0">>],
               !.total_width = @ + char_width]

\* lines 95-113: one iteration of `for char in text`
LoopBody(st, char) ==
    LET char_bitmap == CharMapGet(char)
    IN  IF char_bitmap = None
        THEN SkipChar(st, char)
        ELSE LET char_width == Len(char_bitmap[1]) + 1
             IN  IF ExceedsWidth(st.total_width, char_width)
                 THEN TruncateAt(st, char)
                 ELSE AppendGlyph(st, char_bitmap, char_width)

\* variant of ShiftDown: the last row is not dropped
ShiftDown_KeepLast(rows) == << Repeat("0", Len(rows[1])) >> \o rows

\* line 116: an empty row on top, the last row dropped
ShiftDown(rows) ==
    << Repeat("0", Len(rows[1])) >> \o SubSeq(rows, 1, Len(rows) - 1)

\* lines 94-113: the whole for loop, from character k on
RECURSIVE RunLoop(_, _, _)
RunLoop(st, cs, k) ==
    IF k > Len(cs) \/ st.broke
    THEN st
    ELSE RunLoop(LoopBody(st, cs[k]), cs, k + 1)

\* build_bitmap as a function of its argument
build_bitmap(t) == ShiftDown(RunLoop(LoopInit, Normalize(t), 1).rows)

\* lines 97 and 105: what one call build_bitmap(t) prints to stderr
build_bitmap_warnings(t) == RunLoop(LoopInit, Normalize(t), 1).warnings

(***************************************************************************)
(* Input texts.                                                            *)
(***************************************************************************)
\* a 3-wide, a 4-wide and an upper-case 5-wide character, and one without glyph
CoreAlphabet == {"1", "a", "M", "#"}

FullAlphabet == DOMAIN CHAR_MAP \cup {"A", "Z", "#", " ", "-"}

SeqsUpTo(S, n) == UNION {[1..k -> S] : k \in 0..n}

Texts ==
    {<<c>> : c \in FullAlphabet}
    \cup SeqsUpTo(CoreAlphabet, MaxShort)
    \cup {Repeat(c1, n1) \o Repeat(c2, n2) \o tail :
            c1 \in CoreAlphabet, n1 \in 0..MaxRun,
            c2 \in CoreAlphabet, n2 \in 0..MaxRun,
            tail \in SeqsUpTo(CoreAlphabet, MaxTail)}

(***************************************************************************)
(* The rasterizer as a state machine: build_bitmap(text), one loop         *)
(* iteration per step.                                                     *)
(***************************************************************************)
NoDate == [year |-> 0, month |-> 0, day |-> 0]

EmitIdle ==
    /\ year = 0 /\ preview = FALSE /\ git_ok = "unknown" /\ d = NoDate
    /\ col = 0 /\ row = 0 /\ total_commits = 0 /\ commit_count = 0
    /\ failed_commits = 0 /\ calls = << >> /\ exit_code = "running"

Init ==
    /\ text \in Texts
    /\ pc = "start"
    /\ chars = << >>
    /\ i = 1
    /\ bitmap_rows = << >>
    /\ total_width = 0
    /\ broke = FALSE
    /\ warnings = << >>
    /\ EmitIdle

\* the loop's variables as one value
Cur ==
    [rows |-> bitmap_rows, total_width |-> total_width, broke |-> broke,
     warnings |-> warnings]

SetCur(st) ==
    /\ bitmap_rows' = st.rows
    /\ total_width' = st.total_width
    /\ broke' = st.broke
    /\ warnings' = st.warnings

\* lines 87-92
Start ==
    /\ pc = "start"
    /\ chars' = Normalize(text)
    /\ i' = 1
    /\ SetCur(LoopInit)
    /\ pc' = "loop"
    /\ UNCHANGED <<text, emitVars>>

InLoop == pc = "loop" /\ ~broke /\ i <= Len(chars)

\* lines 95-100: the character has no glyph
StepUnsupported ==
    /\ InLoop
    /\ CharMapGet(chars[i]) = None
    /\ SetCur(LoopBody(Cur, chars[i]))
    /\ i' = i + 1
    /\ UNCHANGED <<text, pc, chars, emitVars>>

\* lines 102-109: the glyph does not fit any more
StepTruncate ==
    /\ InLoop
    /\ CharMapGet(chars[i]) # None
    /\ ExceedsWidth(total_width, Len(CharMapGet(chars[i])[1]) + 1)
    /\ SetCur(LoopBody(Cur, chars[i]))
    /\ UNCHANGED <<text, pc, chars, i, emitVars>>

\* lines 111-113: the glyph is appended
StepAppend ==
    /\ InLoop
    /\ CharMapGet(chars[i]) # None
    /\ ~ExceedsWidth(total_width, Len(CharMapGet(chars[i])[1]) + 1)
    /\ SetCur(LoopBody(Cur, chars[i]))
    /\ i' = i + 1
    /\ UNCHANGED <<text, pc, chars, emitVars>>

\* lines 115-118: the loop is over, the rows are shifted and returned
Return ==
    /\ pc = "loop"
    /\ (broke \/ i > Len(chars))
    /\ bitmap_rows' = ShiftDown(bitmap_rows)
    /\ pc' = "done"
    /\ UNCHANGED <<text, chars, i, total_width, broke, warnings, emitVars>>

Next == Start \/ StepUnsupported \/ StepTruncate \/ StepAppend \/ Return

Spec == Init /\ [][Next]_vars

(***************************************************************************)
(* datetime.date as used by write_string_to_git (lines 153-155, 166-167):  *)
(* a date is [year, month, day]; arithmetic goes through the proleptic     *)
(* Gregorian ordinal, as in the datetime module.                           *)
(***************************************************************************)
is_leap(y) == y % 4 = 0 /\ (y % 100 # 0 \/ y % 400 = 0)

days_before_year(y) ==
    (y - 1) * 365 + (y - 1) \div 4 - (y - 1) \div 100 + (y - 1) \div 400

DAYS_IN_MONTH == <<31, 28, 31, 30, 31, 30, 31, 31, 30, 31, 30, 31>>

DAYS_BEFORE_MONTH == <<0, 31, 59, 90, 120, 151, 181, 212, 243, 273, 304, 334>>

days_in_month(y, m) ==
    IF m = 2 /\ is_leap(y) THEN 29 ELSE DAYS_IN_MONTH[m]

days_before_month(y, m) ==
    DAYS_BEFORE_MONTH[m] + (IF m > 2 /\ is_leap(y) THEN 1 ELSE 0)

\* date.toordinal()
ymd2ord(dt) ==
    days_before_year(dt.year) + days_before_month(dt.year, dt.month) + dt.day

\* date.fromordinal(n)
ord2ymd(n) ==
    LET n0 == n - 1
        n400 == n0 \div 146097
        r400 == n0 % 146097
        n100 == r400 \div 36524
        r100 == r400 % 36524
        n4 == r100 \div 1461
        r4 == r100 % 1461
        n1 == r4 \div 365
        r1 == r4 % 365
        y == n400 * 400 + 1 + n100 * 100 + n4 * 4 + n1
    IN  IF n1 = 4 \/ n100 = 4
        THEN [year |-> y - 1, month |-> 12, day |-> 31]
        ELSE LET leapyear == n1 = 3 /\ (n4 # 24 \/ n100 = 3)
                 leap(m) == IF m > 2 /\ leapyear THEN 1 ELSE 0
                 m0 == (r1 + 50) \div 32
                 p0 == DAYS_BEFORE_MONTH[m0] + leap(m0)
                 m1 == IF p0 > r1 THEN m0 - 1 ELSE m0
                 p1 == IF p0 > r1
                       THEN p0 - (DAYS_IN_MONTH[m1]
                                  + (IF m1 = 2 /\ leapyear THEN 1 ELSE 0))
                       ELSE p0
             IN  [year |-> y, month |-> m1, day |-> r1 - p1 + 1]

\* date.weekday(): Monday is 0, Sunday is 6
weekday(dt) == (ymd2ord(dt) + 6) % 7

\* date + datetime.timedelta(days=n)
date_add(dt, n) == ord2ymd(ymd2ord(dt) + n)

\* the decimal digits of n, zero-padded to `width` characters (%Y, %m, %d)
Digits == <<"0", "1", "2", "3", "4", "5", "6", "7", "8", "9">>

RECURSIVE Padded(_, _)
Padded(n, width) ==
    IF width = 0 THEN << >>
    ELSE Padded(n \div 10, width - 1) \o <<Digits[(n % 10) + 1]>>

\* line 167: commit_date.strftime("%Y-%m-%dT12:00:00")
strftime(dt) ==
    Padded(dt.year, 4) \o <<"-">> \o Padded(dt.month, 2) \o <<"-">>
    \o Padded(dt.day, 2) \o <<"T", "1", "2", ":", "0", "0", ":", "0", "0">>

(***************************************************************************)
(* write_string_to_git (lines 129-180) and __main__ (lines 183-215).       *)
(***************************************************************************)
\* variant of YearInvalid: the upper limit is not checked
YearInvalid_LowerOnly(y) == y < 2000

\* line 137
YearInvalid(y) == y < 2000 \/ y > 2100

\* lines 154-155: the while loop, from dt on
RECURSIVE SundayFrom(_)
SundayFrom(dt) ==
    IF weekday(dt) # 6 THEN SundayFrom(date_add(dt, 1)) ELSE dt

\* variant of FirstSunday: the Sunday on or before January 1
FirstSunday_OnOrBefore(y) ==
    LET jan1 == [year |-> y, month |-> 1, day |-> 1]
    IN  date_add(jan1, 0 - ((weekday(jan1) + 1) % 7))

\* lines 153-155: the first Sunday on or after January 1 of year y
FirstSunday(y) == SundayFrom([year |-> y, month |-> 1, day |-> 1])

\* variant of DayOffset: row and column exchanged
DayOffset_Transposed(r, c) == r * 7 + c

\* line 166: the argument of timedelta(days=...)
DayOffset(r, c) == r + c * 7

\* lines 166-167: the date string handed to generate_commit for cell (r, c)
CommitDate(anchor, r, c) == strftime(date_add(anchor, DayOffset(r, c)))

\* line 157: sum(row.count("1") for row in bitmap_rows)
RECURSIVE CountOnes(_)
CountOnes(s) ==
    IF s = << >> THEN 0
    ELSE (IF Head(s) = "1" THEN 1 ELSE 0) + CountOnes(Tail(s))

RECURSIVE SumOnes(_)
SumOnes(rows) ==
    IF rows = << >> THEN 0 ELSE CountOnes(Head(rows)) + SumOnes(Tail(rows))

\* line 208: any(bitmap), true when some row is a non-empty string
AnyRow(rows) == \E r \in 1..Len(rows) : rows[r] # << >>

\* line 165: bitmap_rows[row][col] == "1" (row and col 0-based)
IsLit(rows, r, c) == rows[r + 1][c + 1] = "1"

\* variant of Tally: a failed call is not counted
Tally_DropFailures(cc, fc, ok) == IF ok THEN <<cc + 1, fc>> ELSE <<cc, fc>>

\* lines 168-175: the tallies after a call that returned ok
Tally(cc, fc, ok) == IF ok THEN <<cc + 1, fc>> ELSE <<cc, fc + 1>>

\* lines 163-164: the cell the nested for loops visit after (c, r)
Advance(c, r) == IF r = 6 THEN <<c + 1, 0>> ELSE <<c, r + 1>>

EmitTexts ==
    { << >>,
      <<"#">>,
      <<"1">>,
      <<"a", "#", "b">>,
      <<"H", "i">>,
      <<"M", "M", "M", "M", "M", "M", "M", "M", "1">>,
      <<"#", "#", "#", "#", "#", "#", "#", "#", "#", "#", "1">> }

Years == (2000 - YearMargin)..(2100 + YearMargin)

InitEmit ==
    /\ text \in EmitTexts
    /\ year \in Years
    /\ preview \in BOOLEAN
    /\ pc = "main"
    /\ chars = << >> /\ i = 1 /\ total_width = 0 /\ broke = FALSE
    /\ warnings = << >>
    /\ bitmap_rows = << >>
    /\ git_ok = "unknown" /\ d = NoDate /\ col = 0 /\ row = 0
    /\ total_commits = 0 /\ commit_count = 0 /\ failed_commits = 0
    /\ calls = << >> /\ exit_code = "running"

loopVars == <<d, col, row, total_commits, commit_count, failed_commits, calls>>

\* line 206: bitmap = build_bitmap(args.text), warnings included
MainBuild ==
    /\ pc = "main"
    /\ bitmap_rows' = build_bitmap(text)
    /\ warnings' = warnings \o build_bitmap_warnings(text)
    /\ pc' = "check_empty"
    /\ UNCHANGED <<text, rasterLocals, year, preview, git_ok, loopVars, exit_code>>

\* lines 208-210: nothing to render
ExitEmpty ==
    /\ pc = "check_empty"
    /\ ~AnyRow(bitmap_rows)
    /\ exit_code' = "1"
    /\ pc' = "exit"
    /\ UNCHANGED <<text, rasterVars, bitmap_rows, year, preview, git_ok, loopVars>>

\* lines 212-213: preview mode prints the bitmap and the script ends
Preview ==
    /\ pc = "check_empty"
    /\ AnyRow(bitmap_rows)
    /\ preview
    /\ exit_code' = "0"
    /\ pc' = "exit"
    /\ UNCHANGED <<text, rasterVars, bitmap_rows, year, preview, git_ok, loopVars>>

\* lines 214-215: write_string_to_git(args.text, args.year) is entered
EnterWrite ==
    /\ pc = "check_empty"
    /\ AnyRow(bitmap_rows)
    /\ ~preview
    /\ pc' = "validate_year"
    /\ UNCHANGED <<text, rasterVars, bitmap_rows, year, preview, git_ok, loopVars,
                   exit_code>>

\* lines 137-142
ExitBadYear ==
    /\ pc = "validate_year"
    /\ YearInvalid(year)
    /\ exit_code' = "1"
    /\ pc' = "exit"
    /\ UNCHANGED <<text, rasterVars, bitmap_rows, year, preview, git_ok, loopVars>>

\* lines 145-148: git rev-parse fails
ExitNoRepo ==
    /\ pc = "validate_year"
    /\ ~YearInvalid(year)
    /\ git_ok' = "failed"
    /\ exit_code' = "1"
    /\ pc' = "exit"
    /\ UNCHANGED <<text, rasterVars, bitmap_rows, year, preview, loopVars>>

\* lines 145-161: git rev-parse succeeds; the bitmap, the anchor and the
\* tallies are set up; build_bitmap runs, and warns, a second time
Prepare ==
    /\ pc = "validate_year"
    /\ ~YearInvalid(year)
    /\ git_ok' = "ok"
    /\ bitmap_rows' = build_bitmap(text)
    /\ warnings' = warnings \o build_bitmap_warnings(text)
    /\ d' = FirstSunday(year)
    /\ total_commits' = SumOnes(build_bitmap(text))
    /\ commit_count' = 0
    /\ failed_commits' = 0
    /\ col' = 0
    /\ row' = 0
    /\ pc' = "emit"
    /\ UNCHANGED <<text, rasterLocals, year, preview, calls, exit_code>>

InCell == pc = "emit" /\ col < Len(bitmap_rows[1])

\* lines 165-175: one call of generate_commit for a lit cell, returning ok
Commit(ok) ==
    /\ InCell
    /\ IsLit(bitmap_rows, row, col)
    /\ calls' = Append(calls, [row |-> row, col |-> col,
                               date |-> CommitDate(d, row, col)])
    /\ commit_count' = Tally(commit_count, failed_commits, ok)[1]
    /\ failed_commits' = Tally(commit_count, failed_commits, ok)[2]
    /\ col' = Advance(col, row)[1]
    /\ row' = Advance(col, row)[2]
    /\ UNCHANGED <<text, pc, rasterVars, bitmap_rows, year, preview, git_ok, d,
                   total_commits, exit_code>>

CommitOk == Commit(TRUE)

CommitFail == failed_commits < MaxFailed /\ Commit(FALSE)

\* line 165: the cell is not lit
SkipCell ==
    /\ InCell
    /\ ~IsLit(bitmap_rows, row, col)
    /\ col' = Advance(col, row)[1]
    /\ row' = Advance(col, row)[2]
    /\ UNCHANGED <<text, pc, rasterVars, bitmap_rows, year, preview, git_ok, d,
                   total_commits, commit_count, failed_commits, calls, exit_code>>

\* lines 177-180: the loops are over, the summary is printed, the script ends
Summary ==
    /\ pc = "emit"
    /\ col >= Len(bitmap_rows[1])
    /\ exit_code' = "0"
    /\ pc' = "exit"
    /\ UNCHANGED <<text, rasterVars, bitmap_rows, year, preview, git_ok, loopVars>>

NextEmit ==
    \/ MainBuild \/ ExitEmpty \/ Preview \/ EnterWrite \/ ExitBadYear
    \/ ExitNoRepo \/ Prepare \/ CommitOk \/ CommitFail \/ SkipCell \/ Summary

SpecEmit == InitEmit /\ [][NextEmit]_vars

(***************************************************************************)
(* Properties of the rasterizer, checked under Spec.                       *)
(***************************************************************************)
Supported(c) == c \in DOMAIN CHAR_MAP

\* the input with every character that has no glyph (after lower()) removed
WithoutUnsupported(t) == SelectSeq(t, LAMBDA c : Supported(lower_char(c)))

\* C1: unsupported characters contribute nothing: build_bitmap(text) is the
\* bitmap of the text with every character outside a-z/0-9 removed.
C1_SkipContributesNothing ==
    pc = "done" => bitmap_rows = build_bitmap(WithoutUnsupported(text))

\* the algorithm of build_bitmap without the cut to get_max_chars() characters:
\* only the per-character width check decides where rendering stops
WidthCheckOnly(t) == ShiftDown(RunLoop(LoopInit, lower(t), 1).rows)

\* C2: the cut to 10 characters is only an optimization: build_bitmap returns
\* what the same loop returns without the cut.
C2_CapIsOnlyOptimization ==
    pc = "done" => bitmap_rows = WidthCheckOnly(text)

\* C3: build_bitmap returns exactly 7 rows of one common length, and row 0
\* holds only "0" cells; also for empty text and text without any glyph.
C3_SevenEqualRowsTopBlank ==
    pc = "done" =>
        /\ Len(bitmap_rows) = 7
        /\ \A r \in 1..Len(bitmap_rows) : Len(bitmap_rows[r]) = Len(bitmap_rows[1])
        /\ \A k \in 1..Len(bitmap_rows[1]) : bitmap_rows[1][k] = "0"

C3_Witness ==
    /\ pc = "done"
    /\ Len(bitmap_rows[1]) > 0
    /\ \E k \in 1..Len(warnings) : warnings[k][1] = "not supported"

\* C4: total_width never exceeds 52 in the loop and no returned row is longer
\* than 52: a text that would become wider is truncated first.
C4_WidthAtMost52 ==
    /\ total_width <= 52
    /\ \A r \in 1..Len(bitmap_rows) : Len(bitmap_rows[r]) <= 52

C4_Witness ==
    /\ pc = "done"
    /\ broke
    /\ total_width = 52
    /\ Len(bitmap_rows[1]) = 52

\* C5: when the loop stops at the character with 0-based index k (here i - 1),
\* build_bitmap(text[:k]) is the bitmap that the truncated run returns.
C5_TruncationIsPrefixResult ==
    (pc = "done" /\ broke) => bitmap_rows = build_bitmap(Prefix(text, i - 1))

C5_Witness ==
    /\ pc = "done"
    /\ broke
    /\ i - 1 < Len(text)
    /\ Len(bitmap_rows[1]) > 0

\* the sum of (glyph width + 1) over the supported characters of cs
RECURSIVE WidthOf(_)
WidthOf(cs) ==
    IF cs = << >> THEN 0
    ELSE (IF Supported(Head(cs)) THEN Len(CHAR_MAP[Head(cs)][1]) + 1 ELSE 0)
         + WidthOf(Tail(cs))

\* the first position of cs holding a supported character that would push the
\* accumulated width above 52, or Len(cs) + 1 when there is none
FirstOverflow(cs) ==
    LET over == {k \in 1..Len(cs) :
                    Supported(cs[k]) /\ WidthOf(SubSeq(cs, 1, k)) > 52}
    IN  IF over = {} THEN Len(cs) + 1
        ELSE CHOOSE k \in over : \A j \in over : k <= j

\* the characters that are rendered: the supported ones before FirstOverflow
Rendered(cs) == SelectSeq(SubSeq(cs, 1, FirstOverflow(cs) - 1), Supported)

\* glyph row r followed by "0", for every character of cs, left to right
RECURSIVE GlyphRowOf(_, _)
GlyphRowOf(cs, r) ==
    IF cs = << >> THEN << >>
    ELSE CHAR_MAP[Head(cs)][r] \o <<"0">> \o GlyphRowOf(Tail(cs), r)

\* C9: the bitmap is made of whole glyphs, each followed by a "0" column,
\* shifted down one row: its width is the sum of (glyph width + 1) over the
\* rendered characters of the lower-cased text cut to 10 characters, and row
\* r + 1 is the concatenation of glyph row r + "0" for r in 0..5.  For "1" the
\* rows are 0000, 0100, 1100, 0100, 0100, 1110, 0000.
C9_WholeGlyphsShiftedDown ==
    pc = "done" =>
        LET shown == Rendered(Prefix(lower(text), 10))
        IN  /\ Len(bitmap_rows[1]) = WidthOf(shown)
            /\ \A r \in 1..6 : bitmap_rows[r + 1] = GlyphRowOf(shown, r)
            /\ text = <<"1">> =>
                 bitmap_rows = << <<"0", "0", "0", "0">>, <<"0", "1", "0", "0">>,
                                  <<"1", "1", "0", "0">>, <<"0", "1", "0", "0">>,
                                  <<"0", "1", "0", "0">>, <<"1", "1", "1", "0">>,
                                  <<"0", "0", "0", "0">> >>

C9_Witness ==
    /\ pc = "done"
    /\ broke
    /\ Len(Rendered(Prefix(lower(text), 10))) >= 2
    /\ \E k \in 1..Len(warnings) : warnings[k][1] = "not supported"

(***************************************************************************)
(* Properties of the driver, checked under SpecEmit.                       *)
(***************************************************************************)
\* write_string_to_git has passed its checks and set up its loop
Emitting == pc \in {"emit", "exit"} /\ git_ok = "ok"

\* C6: in emission mode, a bitmap of zero columns, a year outside [2000, 2100]
\* or a failed git-repository check ends the run with a non-zero status, and
\* generate_commit is never called in that run.
C6_FatalBeforeAnyRecord ==
    LET zeroColumns == pc # "main" /\ Len(bitmap_rows[1]) = 0
        badYear == year < 2000 \/ year > 2100
        noRepo == git_ok = "failed"
    IN  (~preview /\ pc # "main" /\ (zeroColumns \/ badYear \/ noRepo)) =>
            /\ calls = << >>
            /\ exit_code # "0"
            /\ pc = "exit" => exit_code = "1"
            /\ zeroColumns => pc \in {"check_empty", "exit"}
            /\ badYear => pc \in {"check_empty", "validate_year", "exit"}
            /\ noRepo => pc = "exit"

C6_Witness ==
    /\ ~preview
    /\ pc = "exit"
    /\ exit_code = "1"
    /\ Len(bitmap_rows[1]) > 0
    /\ year > 2100

\* position of cell (row r, column c) in the order of the nested loops
CellOrder(r, c) == c * 7 + r

\* the cells of the bitmap holding "1", as <<row, col>>, 0-based
LitCells(rows) ==
    {rc \in (0..6) \X (0..(Len(rows[1]) - 1)) : rows[rc[1] + 1][rc[2] + 1] = "1"}

\* C7: generate_commit is called exactly once for every "1" cell and for no
\* other cell, columns ascending and rows ascending inside a column; a failed
\* call does not stop or skip later calls; when the loop ends
\* commit_count + failed_commits = total_commits = the number of "1" cells.
C7_OncePerLitCellInOrder ==
    Emitting =>
        /\ \A k \in 1..Len(calls) :
               <<calls[k].row, calls[k].col>> \in LitCells(bitmap_rows)
        /\ \A k \in 1..(Len(calls) - 1) :
               CellOrder(calls[k].row, calls[k].col)
                   < CellOrder(calls[k + 1].row, calls[k + 1].col)
        /\ Len(calls) = Cardinality({rc \in LitCells(bitmap_rows) :
                            CellOrder(rc[1], rc[2]) < CellOrder(row, col)})
        /\ commit_count + failed_commits = Len(calls)
        /\ pc = "exit" =>
               /\ Len(calls) = Cardinality(LitCells(bitmap_rows))
               /\ commit_count + failed_commits = total_commits
               /\ total_commits = Cardinality(LitCells(bitmap_rows))

C7_Witness ==
    /\ Emitting
    /\ pc = "exit"
    /\ failed_commits > 0
    /\ commit_count > 0
    /\ Len(calls) > 10

\* weekday of January 1 of year y by Gauss's formula: 0 is Sunday
JanFirstWeekday(y) ==
    (1 + 5 * ((y - 1) % 4) + 4 * ((y - 1) % 100) + 6 * ((y - 1) % 400)) % 7

\* day of January of the first Sunday on or after January 1 of year y
FirstSundayDay(y) == 1 + ((7 - JanFirstWeekday(y)) % 7)

CalendarLeap(y) == (y % 4 = 0 /\ y % 100 # 0) \/ y % 400 = 0

MonthLength(y, m) ==
    IF m = 2 THEN (IF CalendarLeap(y) THEN 29 ELSE 28)
    ELSE IF m \in {4, 6, 9, 11} THEN 30 ELSE 31

\* the date n - 1 days after the first day of month m of year y
RECURSIVE CalendarWalk(_, _, _)
CalendarWalk(y, m, n) ==
    IF n <= MonthLength(y, m) THEN [year |-> y, month |-> m, day |-> n]
    ELSE IF m = 12 THEN CalendarWalk(y + 1, 1, n - MonthLength(y, m))
    ELSE CalendarWalk(y, m + 1, n - MonthLength(y, m))

\* C8: the anchor is the first Sunday on or after January 1 of the year, and
\* the record of a lit cell (r, c) is dated anchor + (c * 7 + r) days; in 2024
\* cell (0, 0) maps to the anchor and cell (6, 1) to anchor + 13 days.
C8_DateMappingExact ==
    Emitting =>
        /\ d = [year |-> year, month |-> 1, day |-> FirstSundayDay(year)]
        /\ \A k \in 1..Len(calls) :
               calls[k].date =
                   strftime(CalendarWalk(year, 1,
                       FirstSundayDay(year) + calls[k].col * 7 + calls[k].row))
        /\ year = 2024 =>
               /\ CommitDate(d, 0, 0) =
                      <<"2", "0", "2", "4", "-", "0", "1", "-", "0", "7",
                        "T", "1", "2", ":", "0", "0", ":", "0", "0">>
               /\ CommitDate(d, 6, 1) =
                      <<"2", "0", "2", "4", "-", "0", "1", "-", "2", "0",
                        "T", "1", "2", ":", "0", "0", ":", "0", "0">>

C8_Witness ==
    /\ Emitting
    /\ year = 2024
    /\ pc = "exit"
    /\ Len(calls) > 100

\* C10: every date handed to generate_commit lies in the requested year: lit
\* cells are in rows 1..5 and columns 0..50, so the offset from the anchor is
\* at most 355, and the anchor is no later than January 7.
C10_DatesInsideYear ==
    Emitting =>
        /\ d.year = year /\ d.month = 1 /\ d.day <= 7
        /\ \A k \in 1..Len(calls) :
               /\ calls[k].row \in 1..5
               /\ calls[k].col \in 0..50
               /\ calls[k].col * 7 + calls[k].row <= 355
               /\ SubSeq(calls[k].date, 1, 4) = Padded(year, 4)

C10_Witness ==
    /\ Emitting
    /\ d.day = 7
    /\ ~CalendarLeap(year)
    /\ \E k \in 1..Len(calls) : calls[k].col = 50 /\ calls[k].row = 5

====
